---- MODULE Spec2Model ----
(***************************************************************************)
(* Model of billing_bars.py: a Streamlit page that keeps invoices in one   *)
(* CSV file (billing_simple.csv), edits them by generated id, aggregates   *)
(* them per month and colours each monthly total against a target.         *)
(*                                                                         *)
(* Text is a sequence of one-character strings, so that stripping, the CSV *)
(* writer and the CSV reader's type inference are computed character by    *)
(* character.  Amounts are whole numbers of euros.                         *)
(***************************************************************************)
EXTENDS Integers, Sequences, FiniteSets, TLC

VARIABLES
    file,      \* billing_simple.csv on disk: [exists, cols, rows]
    df,        \* the data frame of the script run that executed last
    edit_id,   \* st.session_state.edit_id
    pc,        \* "start": no run yet; "idle": page rendered; "rerun": st.rerun() pending
    uid,       \* number of uuid4() values drawn so far, plus one
    last,      \* history: the user action of the run in progress, its inputs and outcome
    removed,   \* history: ids deleted through the delete button
    cvalue,    \* color_for_value: argument value
    ctarget,   \* color_for_value: argument target
    ccolor     \* color_for_value: returned hex string ("" before the call)

vars == <<file, df, edit_id, pc, uid, last, removed, cvalue, ctarget, ccolor>>

-----------------------------------------------------------------------------
(* Bounds *)

MaxRows == 2      \* an add is taken only while the collection has fewer rows
MaxUuid == 2      \* an add is taken only while at most this many uuids were drawn

-----------------------------------------------------------------------------
(* Text *)

None == <<"N", "o", "n", "e", "T", "y", "p", "e">>   \* Python's None, as a value no id equals

Digits == <<"0", "1", "2", "3", "4", "5", "6", "7", "8", "9">>

IsDigit(c) == c \in {"0", "1", "2", "3", "4", "5", "6", "7", "8", "9"}

DigitVal(c) == (CHOOSE i \in 1..10 : Digits[i] = c) - 1

\* The characters used by the model, in code point order (Python compares
\* strings by code point).
AsciiOrder ==
    <<" ", "#", "-", ".", "/", "0", "1", "2", "3", "4", "5", "6", "7", "8", "9",
      "<", ">", "A", "B", "L", "N", "T", "U", "a", "b", "c", "e", "l", "n", "o", "u">>

Ord(c) == CHOOSE i \in 1..Len(AsciiOrder) : AsciiOrder[i] = c

\* Python's str < str.
RECURSIVE StrLess(_, _)
StrLess(a, b) ==
    IF b = <<>> THEN FALSE
    ELSE IF a = <<>> THEN TRUE
    ELSE IF Head(a) = Head(b) THEN StrLess(Tail(a), Tail(b))
    ELSE Ord(Head(a)) < Ord(Head(b))

RECURSIVE lstrip(_)
lstrip(s) == IF s # <<>> /\ Head(s) = " " THEN lstrip(Tail(s)) ELSE s

RECURSIVE rstrip(_)
rstrip(s) ==
    IF s # <<>> /\ s[Len(s)] = " " THEN rstrip(SubSeq(s, 1, Len(s) - 1)) ELSE s

\* str.strip()
strip(s) == rstrip(lstrip(s))

\* str(int) for a natural number.
RECURSIVE IntStr(_)
IntStr(n) ==
    IF n < 10 THEN <<Digits[n + 1]>>
    ELSE IntStr(n \div 10) \o <<Digits[(n % 10) + 1]>>

RECURSIVE DigitsVal(_)
DigitsVal(s) ==
    IF s = <<>> THEN 0
    ELSE 10 * DigitsVal(SubSeq(s, 1, Len(s) - 1)) + DigitVal(s[Len(s)])

AllDigits(s) == s # <<>> /\ \A i \in 1..Len(s) : IsDigit(s[i])

-----------------------------------------------------------------------------
(* The CSV reader and writer (pandas read_csv / to_csv with their defaults) *)

\* Cells read_csv reads as a missing value.
NaValues ==
    { <<>>,
      <<"N", "A">>, <<"N", "a", "N">>, <<"n", "a", "n">>,
      <<"N", "U", "L", "L">>, <<"n", "u", "l", "l">>, <<"N", "o", "n", "e">>,
      <<"N", "/", "A">>, <<"n", "/", "a">>, <<"#", "N", "A">>,
      <<"#", "N", "/", "A">>, <<"<", "N", "A", ">">> }

NanStr == <<"n", "a", "n">>

\* A cell read_csv parses as an integer: an optional sign and digits.
IsIntText(s) ==
    \/ AllDigits(s)
    \/ Len(s) > 1 /\ s[1] \in {"-", "+"} /\ AllDigits(Tail(s))

\* str(int(cell)) for such a cell.
IntCanon(s) ==
    LET body == IF s[1] \in {"-", "+"} THEN Tail(s) ELSE s
        n == DigitsVal(body)
    IN  (IF s[1] = "-" /\ n # 0 THEN <<"-">> ELSE <<>>) \o IntStr(n)

\* read_csv on one column followed by .astype(str): the column's type is
\* inferred from all of its cells.  Missing values become NaN; a column whose
\* other cells are all integers becomes int64, or float64 when a NaN is in it;
\* any other column keeps its text.  astype(str) then prints each value.
\* The text cells of the model are names, integers and missing-value tokens;
\* decimal and boolean cells do not occur in them.
ReadTextColumn(cells) ==
    LET n == Len(cells)
        isNa(i) == cells[i] \in NaValues
        numeric == \A i \in 1..n : isNa(i) \/ IsIntText(cells[i])
        anyNa == \E i \in 1..n : isNa(i)
    IN  [i \in 1..n |->
            IF isNa(i) THEN NanStr
            ELSE IF numeric
                 THEN IF anyNa THEN IntCanon(cells[i]) \o <<".", "0">>
                               ELSE IntCanon(cells[i])
                 ELSE cells[i]]

\* to_csv writes an amount as the repr of a float64.
FormatAmount(n) == IntStr(n) \o <<".", "0">>

\* A cell that is a whole number written as an integer or as a float.
IsAmountText(s) ==
    \/ AllDigits(s)
    \/ \E k \in 2..(Len(s) - 1) :
          /\ s[k] = "."
          /\ AllDigits(SubSeq(s, 1, k - 1))
          /\ \A j \in (k + 1)..Len(s) : s[j] = "0"

\* pd.to_numeric(errors="coerce").fillna(0.0) on one cell.
ParseAmount(s) ==
    IF ~IsAmountText(s) THEN 0
    ELSE IF AllDigits(s) THEN DigitsVal(s)
    ELSE DigitsVal(SubSeq(s, 1, (CHOOSE k \in 1..Len(s) : s[k] = ".") - 1))

-----------------------------------------------------------------------------
(* Storage *)

Columns == {"id", "client", "amount", "month", "created_at"}

NoFile == [exists |-> FALSE, cols |-> {}, rows |-> <<>>]

\* str(uuid.uuid4()): the k-th value drawn.  Values drawn are pairwise
\* different, contain a letter, and are no missing-value token.
uuid4Same(k) == <<"u", "-", "0">>

uuid4(k) == <<"u", "-">> \o IntStr(k)

\* save_data: the whole frame, in the fixed column order, overwriting the file.
\* rk is a label of the row that no operation reads; it lets a property follow
\* one row through the file.
save_data(d) ==
    [exists |-> TRUE,
     cols |-> Columns,
     rows |-> [i \in 1..Len(d) |->
                 [id |-> d[i].id,
                  client |-> d[i].client,
                  amount |-> FormatAmount(d[i].amount),
                  month |-> d[i].month,
                  created_at |-> d[i].created_at,
                  rk |-> d[i].rk]]]

\* The cells of one column of the file, or the default the reader
\* synthesizes when the column is absent.
TextColumn(f, col) ==
    IF col \in f.cols
    THEN ReadTextColumn([i \in 1..Len(f.rows) |-> f.rows[i][col]])
    ELSE [i \in 1..Len(f.rows) |-> <<>>]

AmountColumn(f) ==
    [i \in 1..Len(f.rows) |->
        IF "amount" \in f.cols THEN ParseAmount(f.rows[i].amount) ELSE 0]

\* The frame after the type cleaning of load_data, before the id repair.
ReadFrame(f) ==
    LET ids == TextColumn(f, "id")
        clients == TextColumn(f, "client")
        months == TextColumn(f, "month")
        created == TextColumn(f, "created_at")
        amounts == AmountColumn(f)
    IN  [i \in 1..Len(f.rows) |->
            [id |-> ids[i], client |-> clients[i], amount |-> amounts[i],
             month |-> months[i], created_at |-> created[i], rk |-> f.rows[i].rk]]

MissingIds == { <<>>, NanStr, <<"N", "o", "n", "e">> }

IsMissing(d, i) == d[i].id \in MissingIds

\* df.loc[missing, "id"] = [uuid4() for each missing row]
RepairIds(d, u) ==
    [i \in 1..Len(d) |->
        IF IsMissing(d, i)
        THEN [d[i] EXCEPT !.id =
                 uuid4(u + Cardinality({j \in 1..(i - 1) : IsMissing(d, j)}))]
        ELSE d[i]]

\* A load that repairs the ids in memory only.
load_dataNoSave(f, u) ==
    IF ~f.exists THEN [df |-> <<>>, file |-> f, uid |-> u]
    ELSE LET d == ReadFrame(f)
             miss == {i \in 1..Len(d) : IsMissing(d, i)}
         IN  [df |-> RepairIds(d, u), file |-> f, uid |-> u + Cardinality(miss)]

\* load_data: the frame read, the file as it is left, and the uuid counter.
load_data(f, u) ==
    IF ~f.exists THEN [df |-> <<>>, file |-> f, uid |-> u]
    ELSE LET d == ReadFrame(f)
             miss == {i \in 1..Len(d) : IsMissing(d, i)}
         IN  IF miss # {}
             THEN LET r == RepairIds(d, u)
                  IN  [df |-> r, file |-> save_data(r), uid |-> u + Cardinality(miss)]
             ELSE [df |-> d, file |-> f, uid |-> u]

Ids(d) == {d[i].id : i \in 1..Len(d)}

-----------------------------------------------------------------------------
(* The handlers of the page *)

\* The add form's checks, in the order of the code: which message is shown.
Validate(client, amount, month) ==
    IF strip(client) = <<>> THEN "client"
    ELSE IF strip(month) = <<>> THEN "month"
    ELSE IF amount <= 0 THEN "amount"
    ELSE "ok"

\* new_row of the add form; k is the index of the uuid drawn.
new_row(k, client, amount, month, now) ==
    [id |-> uuid4(k), client |-> strip(client), amount |-> amount,
     month |-> strip(month), created_at |-> now, rk |-> k]

\* pd.concat([df, pd.DataFrame([new_row])], ignore_index=True)
concat(d, row) == Append(d, row)

\* An edit that selects the rows by the visible fields of the target.
UpdateRowsByFields(d, rid, client, amount, month) ==
    LET same(i) == \E j \in 1..Len(d) :
                      /\ d[j].id = rid
                      /\ d[i].client = d[j].client
                      /\ d[i].amount = d[j].amount
                      /\ d[i].month = d[j].month
    IN  [i \in 1..Len(d) |->
            IF same(i)
            THEN [d[i] EXCEPT !.client = strip(client), !.amount = amount,
                              !.month = strip(month)]
            ELSE d[i]]

\* df.loc[df["id"] == rid, ...] = ... for client, amount and month.
UpdateRows(d, rid, client, amount, month) ==
    [i \in 1..Len(d) |->
        IF d[i].id = rid
        THEN [d[i] EXCEPT !.client = strip(client), !.amount = amount,
                          !.month = strip(month)]
        ELSE d[i]]

\* A delete that selects the rows by the visible fields of the target.
DeleteRowsByFields(d, rid) ==
    LET keep(r) == ~\E j \in 1..Len(d) :
                       /\ d[j].id = rid
                       /\ r.client = d[j].client
                       /\ r.amount = d[j].amount
                       /\ r.month = d[j].month
    IN  SelectSeq(d, keep)

\* df[df["id"] != rid].copy()
DeleteRows(d, rid) ==
    LET keep(r) == r.id # rid
    IN  SelectSeq(d, keep)

\* A reset that leaves the session's edit target as it is.
ResetHandlerKeepsEdit(f, u, e) ==
    [file |-> NoFile, df |-> load_data(NoFile, u).df, edit_id |-> e]

\* The reset button: remove the file if it exists, load again, clear edit_id.
ResetHandler(f, u, e) ==
    [file |-> NoFile, df |-> load_data(NoFile, u).df, edit_id |-> None]

-----------------------------------------------------------------------------
(* Monthly aggregation *)

\* A group's total replaced by the row's amount instead of increased by it.
AddToGroupOverwrite(acc, row) ==
    IF \E k \in 1..Len(acc) : acc[k].month = row.month
    THEN [k \in 1..Len(acc) |->
             IF acc[k].month = row.month
             THEN [acc[k] EXCEPT !.total = row.amount] ELSE acc[k]]
    ELSE LET before == Cardinality({k \in 1..Len(acc) : StrLess(acc[k].month, row.month)})
         IN  SubSeq(acc, 1, before)
             \o <<[month |-> row.month, total |-> row.amount]>>
             \o SubSeq(acc, before + 1, Len(acc))

\* One row added to the groups of groupby("month")["amount"].sum(): the
\* groups are keyed by the month string and kept in the order of their keys.
AddToGroup(acc, row) ==
    IF \E k \in 1..Len(acc) : acc[k].month = row.month
    THEN [k \in 1..Len(acc) |->
             IF acc[k].month = row.month
             THEN [acc[k] EXCEPT !.total = @ + row.amount] ELSE acc[k]]
    ELSE LET before == Cardinality({k \in 1..Len(acc) : StrLess(acc[k].month, row.month)})
         IN  SubSeq(acc, 1, before)
             \o <<[month |-> row.month, total |-> row.amount]>>
             \o SubSeq(acc, before + 1, Len(acc))

RECURSIVE groupby_sum(_)
groupby_sum(d) ==
    IF d = <<>> THEN <<>>
    ELSE AddToGroup(groupby_sum(SubSeq(d, 1, Len(d) - 1)), d[Len(d)])

\* sort_values("month"): a stable sort by the month string.
RECURSIVE sort_values(_)
sort_values(m) ==
    IF m = <<>> THEN <<>>
    ELSE LET rest == sort_values(SubSeq(m, 1, Len(m) - 1))
             x == m[Len(m)]
             before == Cardinality({k \in 1..Len(rest) : ~StrLess(x.month, rest[k].month)})
         IN  SubSeq(rest, 1, before) \o <<x>> \o SubSeq(rest, before + 1, Len(rest))

\* monthly: the frame the chart is drawn from.
monthly(d) == sort_values(groupby_sum(d))

-----------------------------------------------------------------------------
(* The colour gradient.  Python floats are modelled as exact fractions      *)
(* [n, d] with d > 0.                                                       *)

DEFAULT_TARGET == 200000

\* pivot = 0.60 = PivotNum / PivotDen
PivotNum == 3
PivotDen == 5

Frac(n, d) == [n |-> n, d |-> d]

FracLe(x, y) == x.n * y.d <= y.n * x.d

\* x / y for y > 0
FracDiv(x, y) == Frac(x.n * y.d, x.d * y.n)

FracSub(x, y) == Frac(x.n * y.d - y.n * x.d, x.d * y.d)

pivot == Frac(PivotNum, PivotDen)

\* max(lo, min(hi, x))
clamp(x, lo, hi) ==
    LET m == IF FracLe(hi, x) THEN hi ELSE x
    IN  IF FracLe(m, lo) THEN lo ELSE m

\* a + (b - a) * t
lerp(a, b, t) == Frac(a * t.d + (b - a) * t.n, t.d)

\* A conversion that rounds to the nearest integer, halves up.
intRound(x) == (2 * x.n + x.d) \div (2 * x.d)

\* int(x): the fraction truncated towards zero.
int(x) == IF x.n >= 0 THEN x.n \div x.d ELSE -((-x.n) \div x.d)

HexDigits ==
    <<"0", "1", "2", "3", "4", "5", "6", "7", "8", "9", "a", "b", "c", "d", "e", "f">>

\* "{:02x}".format(n) for 0 <= n <= 255
hex02(n) == <<HexDigits[(n \div 16) + 1], HexDigits[(n % 16) + 1]>>

\* "#{:02x}{:02x}{:02x}".format(int(r), int(g), int(b))
rgb_to_hex(r, g, b) == <<"#">> \o hex02(int(r)) \o hex02(int(g)) \o hex02(int(b))

red == <<220, 53, 69>>
yellow == <<255, 193, 7>>
green == <<25, 135, 84>>

color_for_value(value, target) ==
    IF target <= 0 THEN <<"#", "1", "9", "8", "7", "5", "4">>
    ELSE LET ratio == clamp(Frac(value, target), Frac(0, 1), Frac(1, 1))
             one == Frac(1, 1)
         IN  IF FracLe(ratio, pivot)
             THEN LET t == IF pivot.n > 0 THEN FracDiv(ratio, pivot) ELSE one
                  IN  rgb_to_hex(lerp(red[1], yellow[1], t),
                                 lerp(red[2], yellow[2], t),
                                 lerp(red[3], yellow[3], t))
             ELSE LET rest == FracSub(one, pivot)
                      t == IF rest.n > 0
                           THEN FracDiv(FracSub(ratio, pivot), rest) ELSE one
                  IN  rgb_to_hex(lerp(yellow[1], green[1], t),
                                 lerp(yellow[2], green[2], t),
                                 lerp(yellow[3], green[3], t))

-----------------------------------------------------------------------------
(* Inputs *)

M1 == <<"2", "0", "2", "4", "-", "0", "1">>
M2 == <<"2", "0", "2", "4", "-", "0", "2">>

\* What the user can submit in the add form or in the edit fields (client,
\* amount >= 0, month): a plain invoice, a client to be trimmed that reads as
\* a number, a client that is a missing-value token, a blank client, a zero
\* amount and a blank month.
FormInputs ==
    { [client |-> <<"A">>, amount |-> 5, month |-> M1],
      [client |-> <<" ", "0", "7">>, amount |-> 5, month |-> M2],
      [client |-> <<"N", "A">>, amount |-> 5, month |-> M1],
      [client |-> <<" ">>, amount |-> 5, month |-> M1],
      [client |-> <<"A">>, amount |-> 0, month |-> M1],
      [client |-> <<"A">>, amount |-> 5, month |-> <<" ">>] }

\* pd.Timestamp.utcnow().isoformat(timespec="seconds")
Clock == { <<"T", "1">> }

\* The files the first run can find: none, a file of an earlier version
\* without the id and created_at columns (two rows equal in every field), and
\* a file with an id column in which one id is blank.
LegacyFile ==
    [exists |-> TRUE,
     cols |-> {"client", "amount", "month"},
     rows |-> << [id |-> <<>>, client |-> <<"A">>, amount |-> <<"5", ".", "0">>,
                  month |-> M1, created_at |-> <<>>, rk |-> 101],
                 [id |-> <<>>, client |-> <<"A">>, amount |-> <<"5", ".", "0">>,
                  month |-> M1, created_at |-> <<>>, rk |-> 102] >>]

BlankIdFile ==
    [exists |-> TRUE,
     cols |-> Columns,
     rows |-> << [id |-> <<"u", "-", "x">>, client |-> <<"B">>,
                  amount |-> <<"a", "b", "c">>, month |-> M2,
                  created_at |-> <<"T", "0">>, rk |-> 101],
                 [id |-> <<>>, client |-> <<"A">>, amount |-> <<"5">>,
                  month |-> M1, created_at |-> <<"T", "0">>, rk |-> 102] >>]

InitFiles == { NoFile, LegacyFile, BlankIdFile }

NoAction ==
    [op |-> "none", outcome |-> "none", id |-> None,
     client |-> <<>>, amount |-> 0, month |-> <<>>]

-----------------------------------------------------------------------------
(* The session *)

Init ==
    /\ file \in InitFiles
    /\ df = <<>>
    /\ edit_id = None
    /\ pc = "start"
    /\ uid = 1
    /\ last = NoAction
    /\ removed = {}
    /\ cvalue = 0
    /\ ctarget = DEFAULT_TARGET
    /\ ccolor = <<>>

ColorUnchanged == UNCHANGED <<cvalue, ctarget, ccolor>>

\* A script run with no widget event: the first display, or the run that
\* st.rerun() starts.
Run ==
    /\ pc \in {"start", "rerun"}
    /\ LET L == load_data(file, uid)
       IN  /\ df' = L.df
           /\ file' = L.file
           /\ uid' = L.uid
    /\ pc' = "idle"
    /\ last' = NoAction
    /\ UNCHANGED <<edit_id, removed>>
    /\ ColorUnchanged

\* The add form submitted.
AddInvoice(client, amount, month, now) ==
    /\ pc = "idle"
    /\ uid <= MaxUuid
    /\ LET L == load_data(file, uid)
           v == Validate(client, amount, month)
           row == new_row(L.uid, client, amount, month, now)
       IN  /\ Len(L.df) < MaxRows
           /\ IF v # "ok"
              THEN /\ df' = L.df
                   /\ file' = L.file
                   /\ uid' = L.uid
                   /\ pc' = "idle"
                   /\ last' = [NoAction EXCEPT !.op = "add", !.outcome = v]
              ELSE /\ df' = concat(L.df, row)
                   /\ file' = save_data(concat(L.df, row))
                   /\ uid' = L.uid + 1
                   /\ pc' = "rerun"
                   /\ last' = [op |-> "add", outcome |-> "ok", id |-> row.id,
                               client |-> client, amount |-> amount, month |-> month]
    /\ UNCHANGED <<edit_id, removed>>
    /\ ColorUnchanged

\* The reset button.
Reset ==
    /\ pc = "idle"
    /\ LET L == load_data(file, uid)
           r == ResetHandler(L.file, L.uid, edit_id)
       IN  /\ file' = r.file
           /\ df' = r.df
           /\ edit_id' = r.edit_id
           /\ uid' = L.uid
    /\ pc' = "rerun"
    /\ last' = [NoAction EXCEPT !.op = "reset", !.outcome = "ok"]
    /\ UNCHANGED removed
    /\ ColorUnchanged

\* The "Modifier" button of a row that is not being edited.
StartEdit(rid) ==
    /\ pc = "idle"
    /\ LET L == load_data(file, uid)
       IN  /\ rid \in Ids(L.df)
           /\ edit_id # rid
           /\ df' = L.df
           /\ file' = L.file
           /\ uid' = L.uid
    /\ edit_id' = rid
    /\ pc' = "rerun"
    /\ last' = [NoAction EXCEPT !.op = "edit", !.outcome = "ok", !.id = rid]
    /\ UNCHANGED removed
    /\ ColorUnchanged

\* The "Supprimer" button of a row that is not being edited.
Delete(rid) ==
    /\ pc = "idle"
    /\ LET L == load_data(file, uid)
       IN  /\ rid \in Ids(L.df)
           /\ edit_id # rid
           /\ df' = DeleteRows(L.df, rid)
           /\ file' = save_data(DeleteRows(L.df, rid))
           /\ uid' = L.uid
    /\ edit_id' = None
    /\ pc' = "rerun"
    /\ last' = [NoAction EXCEPT !.op = "remove", !.outcome = "ok", !.id = rid]
    /\ removed' = removed \cup {rid}
    /\ ColorUnchanged

\* The "Enregistrer" button of the row being edited.
SaveEdit(new_client, new_amount, new_month) ==
    /\ pc = "idle"
    /\ LET L == load_data(file, uid)
           d == UpdateRows(L.df, edit_id, new_client, new_amount, new_month)
       IN  /\ edit_id \in Ids(L.df)
           /\ df' = d
           /\ file' = save_data(d)
           /\ uid' = L.uid
    /\ edit_id' = None
    /\ pc' = "rerun"
    /\ last' = [op |-> "update", outcome |-> "ok", id |-> edit_id,
                client |-> new_client, amount |-> new_amount, month |-> new_month]
    /\ UNCHANGED removed
    /\ ColorUnchanged

\* The "Annuler" button of the row being edited.
CancelEdit ==
    /\ pc = "idle"
    /\ LET L == load_data(file, uid)
       IN  /\ edit_id \in Ids(L.df)
           /\ df' = L.df
           /\ file' = L.file
           /\ uid' = L.uid
    /\ edit_id' = None
    /\ pc' = "rerun"
    /\ last' = [NoAction EXCEPT !.op = "cancel", !.outcome = "ok", !.id = edit_id]
    /\ UNCHANGED removed
    /\ ColorUnchanged

Next ==
    \/ Run
    \/ \E in \in FormInputs, now \in Clock :
          AddInvoice(in.client, in.amount, in.month, now)
    \/ Reset
    \/ \E rid \in Ids(df) : StartEdit(rid)
    \/ \E rid \in Ids(df) : Delete(rid)
    \/ \E in \in FormInputs : SaveEdit(in.client, in.amount, in.month)
    \/ CancelEdit

Spec == Init /\ [][Next]_vars

-----------------------------------------------------------------------------
(* color_for_value applied to chosen arguments *)

ColorValues == { 10000 * k : k \in -2..25 }

ColorTargets == { -DEFAULT_TARGET, 0, 150000, DEFAULT_TARGET }

InitColor ==
    /\ file = NoFile
    /\ df = <<>>
    /\ edit_id = None
    /\ pc = "start"
    /\ uid = 1
    /\ last = NoAction
    /\ removed = {}
    /\ cvalue \in ColorValues
    /\ ctarget \in ColorTargets
    /\ ccolor = <<>>

ColorCall ==
    /\ ccolor = <<>>
    /\ ccolor' = color_for_value(cvalue, ctarget)
    /\ UNCHANGED <<file, df, edit_id, pc, uid, last, removed, cvalue, ctarget>>

NextColor == ColorCall

SpecColor == InitColor /\ [][NextColor]_vars

-----------------------------------------------------------------------------
(* Properties *)

UniqueIds(d) == \A i, j \in 1..Len(d) : i # j => d[i].id # d[j].id

\* Row i of the file has an id written in it.
HasStoredId(f, i) == "id" \in f.cols /\ f.rows[i].id \notin NaValues

\* The collection a script run starting in this state reads.
Loaded == load_data(file, uid).df

\* The step is the handler of the named operation, run to its st.rerun().
Handled(op) == pc = "idle" /\ pc' = "rerun" /\ last'.op = op /\ last'.outcome = "ok"

RECURSIVE SumAmounts(_, _)
SumAmounts(d, month) ==
    IF d = <<>> THEN 0
    ELSE SumAmounts(Tail(d), month) + (IF Head(d).month = month THEN Head(d).amount ELSE 0)

Orders(n) == {p \in [1..n -> 1..n] : \A i, j \in 1..n : i # j => p[i] # p[j]}

\* C1, first part: no two records have the same id, in memory and in the file.
C1_Unique ==
    /\ UniqueIds(df)
    /\ \A i, j \in 1..Len(file.rows) :
          (i # j /\ HasStoredId(file, i) /\ HasStoredId(file, j))
             => file.rows[i].id # file.rows[j].id

\* C1, second part: across every step a record (followed by its label rk)
\* keeps the id it has, and no other record takes that id.
C1_Stable ==
    /\ \A i \in 1..Len(df), j \in 1..Len(df') :
          (df[i].rk = df'[j].rk) <=> (df[i].id = df'[j].id)
    /\ \A i \in 1..Len(file.rows), j \in 1..Len(file'.rows) :
          HasStoredId(file, i) =>
             /\ (file.rows[i].rk = file'.rows[j].rk) <=> (file.rows[i].id = file'.rows[j].id)
    /\ \A i \in 1..Len(file.rows), j \in 1..Len(df') :
          HasStoredId(file, i) =>
             /\ (file.rows[i].rk = df'[j].rk) <=> (file.rows[i].id = df'[j].id)

\* C1: in every state reached by loads, adds, edits, deletes and resets, ids
\* are unique in memory and in the file, and an id once assigned to a record
\* is never changed nor given to another record.
C1_IdsUniqueAndStable == [](C1_Unique) /\ [][C1_Stable]_vars

\* C1 witness: two records are stored after a delete and a later add.
C1_Witness ==
    /\ pc = "rerun" /\ last.op = "add" /\ last.outcome = "ok"
    /\ Len(df) = 2 /\ removed # {} /\ file = save_data(df)

C3_Step ==
    Handled("remove") =>
        LET before == Loaded
        IN  /\ \E k \in 1..Len(before) :
                  /\ before[k].id = last'.id
                  /\ df' = SubSeq(before, 1, k - 1) \o SubSeq(before, k + 1, Len(before))
            /\ file' = save_data(df')
            /\ last'.id \notin Ids(load_data(file', uid').df)

\* C3, afterwards: no later load returns a record with a removed id.
C3_Never == \A rid \in removed : rid \notin Ids(df) /\ rid \notin Ids(Loaded)

C4_AddRoundTrip ==
    (last.op = "add" /\ last.outcome = "ok") =>
        \E i \in 1..Len(Loaded) :
            /\ Loaded[i].id = last.id
            /\ Loaded[i].client = strip(last.client)
            /\ Loaded[i].amount = last.amount
            /\ Loaded[i].month = strip(last.month)

\* C5: a saved edit whose client or month is blank after trimming is rejected,
\* and after an add or an edit every record has a non-blank client, a
\* non-blank month and an amount >= 0.
C5_UpdateValidated ==
    /\ (last.op = "update" /\ (strip(last.client) = <<>> \/ strip(last.month) = <<>>))
          => last.outcome \in {"client", "month"}
    /\ last.op \in {"add", "update"} =>
          \A i \in 1..Len(df) :
             /\ strip(df[i].client) # <<>>
             /\ strip(df[i].month) # <<>>
             /\ df[i].amount >= 0

\* C7: a load gives every row whose id is missing or blank a fresh non-empty
\* id distinct from all others, keeps the ids that are there, and writes the
\* repaired collection before returning; a second load right after returns
\* the same ids, draws no new one and leaves the file as it is.
C7_RepairOnce ==
    LET L1 == load_data(file, uid)
        L2 == load_data(L1.file, L1.uid)
        n == Len(file.rows)
    IN  file.exists =>
          /\ Len(L1.df) = n
          /\ \A i \in 1..n : L1.df[i].id \notin (MissingIds \cup NaValues)
          /\ UniqueIds(L1.df)
          /\ \A i \in 1..n : HasStoredId(file, i) => L1.df[i].id = file.rows[i].id
          /\ (\E i \in 1..n : ~HasStoredId(file, i)) =>
                /\ L1.file.exists /\ L1.file.cols = Columns
                /\ \A i \in 1..n : L1.file.rows[i].id = L1.df[i].id
          /\ L2.file = L1.file
          /\ L2.uid = L1.uid
          /\ Len(L2.df) = n
          /\ \A i \in 1..n : L2.df[i].id = L1.df[i].id

\* C7 witness: the first run has loaded the file that had no id column, drawn
\* two ids and written them.
C7_Witness ==
    /\ pc = "idle" /\ last = NoAction /\ removed = {}
    /\ uid = 3 /\ Len(df) = 2
    /\ {df[i].rk : i \in 1..Len(df)} = {101, 102}
    /\ file = save_data(df)

\* The colour the claim describes: each channel a + (b - a) * t rounded to
\* the nearest integer.
ColorRounded(value, target) ==
    IF target <= 0 THEN <<"#">> \o hex02(green[1]) \o hex02(green[2]) \o hex02(green[3])
    ELSE LET one == Frac(1, 1)
             r == clamp(Frac(value, target), Frac(0, 1), one)
             low == FracLe(r, pivot)
             a == IF low THEN red ELSE yellow
             b == IF low THEN yellow ELSE green
             t == IF low THEN FracDiv(r, pivot)
                  ELSE FracDiv(FracSub(r, pivot), FracSub(one, pivot))
         IN  <<"#">> \o hex02(intRound(lerp(a[1], b[1], t)))
                     \o hex02(intRound(lerp(a[2], b[2], t)))
                     \o hex02(intRound(lerp(a[3], b[3], t)))

\* C8: every channel returned by color_for_value is a + (b - a) * t rounded
\* to the nearest integer (red at 0, yellow at the pivot, green from the
\* target on, the midpoint of red and yellow at half the pivot; green for a
\* target <= 0).
C8_ColorRounded == ccolor # <<>> => ccolor = ColorRounded(cvalue, ctarget)

\* C9: the monthly aggregate of a non-empty collection has one entry per
\* distinct month string, each total is the sum of the amounts of that month,
\* the entries are in ascending order of month, and the result is the same
\* for every order of the records.
C9_MonthlyAggregate ==
    df # <<>> =>
        LET m == monthly(df)
            n == Len(df)
        IN  /\ {m[k].month : k \in 1..Len(m)} = {df[i].month : i \in 1..n}
            /\ \A k, l \in 1..Len(m) : k < l => StrLess(m[k].month, m[l].month)
            /\ \A k \in 1..Len(m) : m[k].total = SumAmounts(df, m[k].month)
            /\ \A p \in Orders(n) : monthly([i \in 1..n |-> df[p[i]]]) = m

\* C9 witness: the page shows two records of one month, both with an amount.
C9_Witness ==
    /\ pc = "idle" /\ Len(df) = 2
    /\ df[1].month = df[2].month
    /\ df[1].amount > 0 /\ df[2].amount > 0

\* C10: the session's edit target is None or the id of a record that is in
\* the collection, in memory and as the next run loads it.
C10_EditTargetExists ==
    edit_id # None => (edit_id \in Ids(df) /\ edit_id \in Ids(Loaded))

\* C10 witness: a record is being edited after another one was deleted.
C10_Witness == edit_id # None /\ removed # {} /\ pc = "idle"

====
